---- MODULE Spec2Model ----
(***************************************************************************)
(* Model of the market-research pipeline:                                  *)
(*   - src/langchain_firecrawl_agent.py: the firecrawl_search and           *)
(*     firecrawl_scrape tools with their module-level loop guard, one      *)
(*     agent run (generate_segments), and the thread-pool sizing phase     *)
(*     (size_market_for_segments / process_segment);                       *)
(*   - src/firecrawl_pipeline.py: the sequential run_complete_pipeline      *)
(*     with its CreditTracker.                                             *)
(* The specifications share the variables: SpecTools (one agent run        *)
(* calling the tools), SpecPipeline (the sequential pipeline), SpecSizing  *)
(* (the parallel sizing phase, each tool call taken as one step), SpecRun  *)
(* (generate_segments from its reset to its return value), SpecRace (pool  *)
(* threads inside firecrawl_search, statement by statement),               *)
(* SpecAgentPipeline (the run_complete_pipeline of the agent module, with  *)
(* the steps of the sizing phase) and SpecSizingFair (the sizing phase     *)
(* under fair scheduling).                                                 *)
(***************************************************************************)
EXTENDS Integers, Sequences, FiniteSets, TLC

VARIABLES
    _tool_call_counter,   \* module global, langchain_firecrawl_agent.py:20
    _recent_queries,      \* module global, langchain_firecrawl_agent.py:21
    run,                  \* position of the agent run that drives the tools
    last,                 \* the tool call that completed last, with its envelope
    search_calls,         \* the firecrawl_search calls of the run, in issue order
    \* firecrawl_pipeline.run_complete_pipeline
    p_pc,                 \* position in run_complete_pipeline
    size_all_segments,    \* the size_all_segments argument
    gen_outcome,          \* how the generation call ended: "none", "ok", "raise"
    segments,             \* the generated segments
    segments_to_process,  \* the sizing targets
    p_i,                  \* index of the sizing loop, enumerate(..., 1)
    size_outcomes,        \* how each sizing call issued so far ended
    market_sizing_results,
    tracker,              \* the CreditTracker of the run
    files,                \* the result documents written so far
    p_result,             \* what run_complete_pipeline returned
    p_events,             \* the external calls and the sleeps of the run, in order
    \* langchain_firecrawl_agent.size_market_for_segments
    s_input,              \* the segments argument
    top_segments,         \* line 788
    co_pc,                \* position of the coordinating thread
    workers,              \* per submitted segment: the future and its worker
    collected,            \* futures as_completed has yielded so far
    results,              \* line 808, appended at line 1096
    errors_printed,       \* segments reported at line 1099
    phase2,               \* the returned summary, lines 1131-1140
    \* langchain_firecrawl_agent.generate_segments
    messages,             \* result["messages"]: tool observations, final message
    invocations,          \* how many times agent.invoke was called
    gs_result,            \* the dict generate_segments returned, lines 755-769
    \* pool threads inside firecrawl_search
    threads,              \* per thread: its position in lines 124-146 and its locals
    issued,               \* the queries appended to the window so far, in order
    \* langchain_firecrawl_agent.run_complete_pipeline
    lc_pc,                \* position in run_complete_pipeline
    segment_result,       \* what generate_segments returned, line 1175
    complete_results      \* the dict written and returned, lines 1284-1322

toolVars == <<_tool_call_counter, _recent_queries, run, last, search_calls>>

pipeVars == <<p_pc, size_all_segments, gen_outcome, segments, segments_to_process,
              p_i, size_outcomes, market_sizing_results, tracker, files, p_result,
              p_events>>

sizingVars == <<s_input, top_segments, co_pc, workers, collected, results,
                errors_printed, phase2>>

runVars == <<messages, invocations, gs_result>>

raceVars == <<threads, issued>>

agentVars == <<lc_pc, segment_result, complete_results>>

vars == <<toolVars, pipeVars, sizingVars, runVars, raceVars, agentVars>>

(***************************************************************************)
(* Program constants.                                                      *)
(***************************************************************************)
_max_identical_queries == 3
WindowCapacity == 10
SearchLimitCap == 20
ScrapeCeiling == 5000
DefaultSearchCredits == 2
ScrapeCredits == 1
TopN == 3
PoolSize == 3

(***************************************************************************)
(* Bounds of the model.                                                    *)
(***************************************************************************)
MaxToolCalls == 12
MaxSegments == 4
MaxSizingCalls == 2

Queries == {"qX", "qY"}
Urls == {"u1"}
Limits == {10, 20, 25}
ProviderCredits == {0, 2}

Min(a, b) == IF a < b THEN a ELSE b

(***************************************************************************)
(* What the external search provider may answer to a request for at most   *)
(* plimit results.  throws: the client raises.  success: the response's     *)
(* success attribute.  hasData: .data is truthy.  nweb: len(data.web).      *)
(* itemsOk: every item has url/title/description or is a dict.             *)
(* hasCredits/creditsUsed: the creditsUsed attribute, when present.        *)
(***************************************************************************)
SearchResp(throws, success, hasData, nweb, itemsOk, hasCredits, creditsUsed) ==
    [throws |-> throws, success |-> success, hasData |-> hasData, nweb |-> nweb,
     itemsOk |-> itemsOk, hasCredits |-> hasCredits, creditsUsed |-> creditsUsed]

SearchResponses(plimit) ==
    {SearchResp(TRUE, TRUE, FALSE, 0, TRUE, FALSE, 0),       \* network fault
     SearchResp(FALSE, FALSE, FALSE, 0, TRUE, FALSE, 0),     \* success = false
     SearchResp(FALSE, TRUE, FALSE, 0, TRUE, FALSE, 0)}      \* no data / None
    \cup {SearchResp(FALSE, TRUE, TRUE, 0, TRUE, FALSE, 0)}  \* empty, no credits attr
    \cup {SearchResp(FALSE, TRUE, TRUE, 0, TRUE, TRUE, c) : c \in ProviderCredits}
    \cup {SearchResp(FALSE, TRUE, TRUE, plimit, TRUE, FALSE, 0)}
    \cup {SearchResp(FALSE, TRUE, TRUE, n, TRUE, TRUE, c) :
              n \in {1, plimit}, c \in ProviderCredits}
    \cup {SearchResp(FALSE, TRUE, TRUE, 1, FALSE, TRUE, 2)}  \* malformed items

(***************************************************************************)
(* The scrape provider's answers.  errOk: the error attribute is a string  *)
(* (error[:80] does not raise).  mdlen: len of the markdown, 0 when the    *)
(* data carries none.                                                      *)
(***************************************************************************)
ScrapeLens == {0, ScrapeCeiling, ScrapeCeiling + 1}

ScrapeResp(throws, success, errOk, mdlen) ==
    [throws |-> throws, success |-> success, errOk |-> errOk, mdlen |-> mdlen]

ScrapeResponses ==
    {ScrapeResp(TRUE, TRUE, TRUE, 0),
     ScrapeResp(FALSE, FALSE, TRUE, 0),
     ScrapeResp(FALSE, FALSE, FALSE, 0)}
    \cup {ScrapeResp(FALSE, TRUE, TRUE, n) : n \in ScrapeLens}

(***************************************************************************)
(* The JSON envelope a tool returns.  payload: len(results) or             *)
(* len(content) before the marker; count: results_count or full_length;    *)
(* note: "" when the envelope has no note key; has_time: the               *)
(* execution_time_seconds key is present.                                  *)
(***************************************************************************)
Envelope(tool, key, payload, count, marker, credits, note, hasTime) ==
    [success |-> TRUE, tool |-> tool, key |-> key, payload |-> payload,
     count |-> count, marker |-> marker, credits_used |-> credits,
     note |-> note, has_time |-> hasTime]

Returned(env) == [kind |-> "returned", env |-> env]
Raised == [kind |-> "raised", env |-> Envelope("none", "", 0, 0, FALSE, 0, "", FALSE)]

(***************************************************************************)
(* Loop guard, lines 129-135.                                              *)
(***************************************************************************)
\* A window that is appended to and never evicted from.
WindowAfterNoEviction(w, q) == Append(w, q)

\* Lines 130-132: append, then pop(0) when more than 10 are held.
WindowAfter(w, q) ==
    LET w1 == Append(w, q)
    IN  IF Len(w1) > WindowCapacity THEN Tail(w1) ELSE w1

identical_count(w, q) == Cardinality({i \in 1..Len(w) : w[i] = q})

\* The guard with the comparison off by one.
LoopDetectedStrict(w, q) == identical_count(w, q) > _max_identical_queries

LoopDetected(w, q) == identical_count(w, q) >= _max_identical_queries

\* A provider call that passes the caller's limit through.
ProviderLimitUncapped(limit) == limit

\* Line 159: limit=min(limit, 20).
ProviderLimit(limit) == Min(limit, SearchLimitCap)

(***************************************************************************)
(* The body of the try block of firecrawl_search, lines 155-240: what it   *)
(* returns, or Raised when a statement of it raises.                       *)
(***************************************************************************)
SearchTryBody(q, limit, resp) ==
    IF resp.throws THEN Raised
    ELSE IF ~resp.success
         THEN Returned(Envelope("search", q, 0, 0, FALSE, 0, "failed", FALSE))
    ELSE IF ~resp.hasData
         THEN Returned(Envelope("search", q, 0, 0, FALSE, 0, "nodata", FALSE))
    ELSE IF resp.nweb = 0
         THEN Returned(Envelope("search", q, 0, 0, FALSE,
                                IF resp.hasCredits THEN resp.creditsUsed ELSE 0,
                                "noresults", FALSE))
    ELSE IF ~resp.itemsOk THEN Raised
    ELSE LET n == Min(resp.nweb, limit)
         IN  Returned(Envelope("search", q, n, n, FALSE,
                               IF resp.hasCredits THEN resp.creditsUsed
                               ELSE DefaultSearchCredits,
                               "", TRUE))

\* An except clause that lets the exception through.
SearchExceptReraise(q, r) == r

(***************************************************************************)
(* except Exception, lines 241-254 and 335-349.                            *)
(***************************************************************************)
SearchExcept(q, r) ==
    IF r.kind = "raised"
    THEN Returned(Envelope("search", q, 0, 0, FALSE, 0, "error", FALSE))
    ELSE r

ScrapeExcept(url, r) ==
    IF r.kind = "raised"
    THEN Returned(Envelope("scrape", url, 0, 0, FALSE, 0, "error", TRUE))
    ELSE r

(***************************************************************************)
(* firecrawl_search after the window update: the short circuit of lines    *)
(* 134-146, else the guarded provider call.                                *)
(***************************************************************************)
SearchReturn(w, q, limit, resp) ==
    IF LoopDetected(w, q)
    THEN Returned(Envelope("search", q, 0, 0, FALSE, 0, "loop", FALSE))
    ELSE SearchExcept(q, SearchTryBody(q, limit, resp))

(***************************************************************************)
(* The body of the try block of firecrawl_scrape, lines 282-334.           *)
(***************************************************************************)
\* Line 299: truncated = markdown[:5000], as the number of characters kept.
truncated_len(mdlen) == Min(mdlen, ScrapeCeiling)

\* A marker appended to content of exactly the ceiling's length too.
marker_appended_at_ceiling(mdlen) == mdlen >= ScrapeCeiling

\* Lines 300-301: the marker is appended when len(markdown) > 5000.
marker_appended(mdlen) == mdlen > ScrapeCeiling

ScrapeTryBody(url, resp) ==
    IF resp.throws THEN Raised
    ELSE IF resp.success
         THEN Returned(Envelope("scrape", url, truncated_len(resp.mdlen),
                                resp.mdlen, marker_appended(resp.mdlen),
                                ScrapeCredits, "", TRUE))
    ELSE IF ~resp.errOk THEN Raised
    ELSE Returned(Envelope("scrape", url, 0, 0, FALSE, 0, "failed", TRUE))

ScrapeReturn(url, resp) == ScrapeExcept(url, ScrapeTryBody(url, resp))

NoCall ==
    [tool |-> "none", key |-> "", limit |-> 0, identical |-> 0,
     provider_called |-> FALSE, provider_limit |-> 0,
     resp_kind |-> "none", resp_credits |-> 0, resp_len |-> 0, ret |-> Raised]

(***************************************************************************)
(* How the provider's answer is classified by the caller's taxonomy.       *)
(***************************************************************************)
SearchRespKind(resp) ==
    IF resp.throws THEN "exception"
    ELSE IF ~resp.success THEN "provider_error"
    ELSE IF ~resp.hasData THEN "no_data"
    ELSE IF resp.nweb = 0 THEN "empty"
    ELSE IF ~resp.itemsOk THEN "malformed"
    ELSE "ok"

ScrapeRespKind(resp) ==
    IF resp.throws THEN "exception"
    ELSE IF ~resp.success
         THEN (IF resp.errOk THEN "provider_error" ELSE "malformed")
    ELSE "ok"

(***************************************************************************)
(* A completed tool call: its arguments, what the guard counted, whether   *)
(* and how the provider was asked, what it answered, and the return value. *)
(* w is the window after the call's own append.                            *)
(***************************************************************************)
SearchCall(w, q, limit, resp) ==
    LET called == ~LoopDetected(w, q)
    IN  [tool |-> "search", key |-> q, limit |-> limit,
         identical |-> identical_count(w, q),
         provider_called |-> called,
         provider_limit |-> IF called THEN ProviderLimit(limit) ELSE 0,
         resp_kind |-> IF called THEN SearchRespKind(resp) ELSE "none",
         resp_credits |-> IF called /\ resp.hasCredits THEN resp.creditsUsed ELSE 0,
         resp_len |-> 0,
         ret |-> SearchReturn(w, q, limit, resp)]

ScrapeCall(url, resp) ==
    [tool |-> "scrape", key |-> url, limit |-> 0, identical |-> 0,
     provider_called |-> TRUE, provider_limit |-> 0,
     resp_kind |-> ScrapeRespKind(resp), resp_credits |-> 0,
     resp_len |-> resp.mdlen,
     ret |-> ScrapeReturn(url, resp)]

(***************************************************************************)
(* firecrawl_pipeline.py: CreditTracker, lines 101-141.                    *)
(***************************************************************************)
CreditTracker == [operations |-> <<>>, total_credits |-> 0]

\* A ledger that puts the new record first.
operations_insert_first(operations, operation_data) ==
    <<operation_data>> \o operations

\* Line 123: self.operations.append(operation_data).
operations_append(operations, operation_data) ==
    Append(operations, operation_data)

\* An add_operation that records the operation and leaves the total alone.
add_operation_untotalled(t, operation_name, credits_used) ==
    [operations |-> Append(t.operations,
                           [operation |-> operation_name, credits |-> credits_used]),
     total_credits |-> t.total_credits]

add_operation(t, operation_name, credits_used) ==
    [operations |-> operations_append(t.operations,
                           [operation |-> operation_name, credits |-> credits_used]),
     total_credits |-> t.total_credits + credits_used]

get_summary(t) == [total_credits |-> t.total_credits, operations |-> t.operations]

(***************************************************************************)
(* What the generation call may return: a list of segments, each with a    *)
(* name and a priority_level.  Names are the positions in the list.        *)
(***************************************************************************)
Priorities == {"primary", "secondary", "alternative"}

Segment(n, prio) == [segment_name |-> n, priority_level |-> prio]

SegmentLists(n) ==
    {[k \in 1..n |-> Segment(k, f[k])] : f \in [1..n -> Priorities]}

\* Ten segments, exactly one primary and two secondary.
ScenarioA ==
    [k \in 1..10 |->
        Segment(k, IF k = 2 THEN "primary"
                   ELSE IF k \in {5, 9} THEN "secondary" ELSE "alternative")]

GeneratedLists == UNION {SegmentLists(n) : n \in 0..MaxSegments} \cup {ScenarioA}

PipelineIdle ==
    /\ p_pc = "idle"
    /\ size_all_segments = FALSE
    /\ gen_outcome = "none"
    /\ segments = <<>>
    /\ segments_to_process = <<>>
    /\ p_i = 0
    /\ size_outcomes = <<>>
    /\ market_sizing_results = <<>>
    /\ tracker = CreditTracker
    /\ files = <<>>
    /\ p_result = "none"
    /\ p_events = <<>>

(***************************************************************************)
(* The sizing phase before size_market_for_segments is called.             *)
(***************************************************************************)
NoPhase2 == [returned |-> FALSE, n_results |-> 0, total_credits |-> 0,
             total_searches |-> 0, total_scrapes |-> 0]

SizingIdle ==
    /\ s_input = <<>>
    /\ top_segments = <<>>
    /\ co_pc = "idle"
    /\ workers = <<>>
    /\ collected = {}
    /\ results = <<>>
    /\ errors_printed = {}
    /\ phase2 = NoPhase2

(***************************************************************************)
(* generate_segments before it is called; no pool thread inside a tool.    *)
(***************************************************************************)
FinalAnswer(json, object, segs) == [json |-> json, object |-> object, segments |-> segs]

NoResult ==
    [returned |-> FALSE, structured_segments |-> "null",
     raw_result |-> FinalAnswer(FALSE, FALSE, "absent"),
     messages_count |-> 0, credits_used |-> 0, search_count |-> 0,
     scrape_count |-> 0]

RunIdle ==
    /\ messages = <<>>
    /\ invocations = 0
    /\ gs_result = NoResult

RaceIdle == threads = <<>> /\ issued = <<>>

(***************************************************************************)
(* langchain_firecrawl_agent.run_complete_pipeline before it is called.    *)
(***************************************************************************)
NoSegmentResult ==
    [parsed |-> FALSE, structured_segments |-> <<>>, credits_used |-> 0,
     search_count |-> 0, scrape_count |-> 0]

NoCompleteResults ==
    [written |-> 0, sized |-> <<>>, total_credits |-> 0, total_searches |-> 0,
     total_scrapes |-> 0]

AgentIdle ==
    /\ lc_pc = "idle"
    /\ segment_result = NoSegmentResult
    /\ complete_results = NoCompleteResults

(***************************************************************************)
(* SpecTools: one agent run at a time (generate_segments), the agent       *)
(* calling the two tools one after the other.                              *)
(***************************************************************************)
ToolsIdle ==
    /\ _tool_call_counter = 0
    /\ _recent_queries = <<>>
    /\ run = "idle"
    /\ last = NoCall
    /\ search_calls = <<>>

InitTools ==
    /\ ToolsIdle
    /\ PipelineIdle
    /\ SizingIdle
    /\ RunIdle
    /\ AgentIdle
    /\ RaceIdle

\* generate_segments, lines 497-500: the reset at the start of a run.
generate_segments ==
    /\ run \in {"idle", "final"}
    /\ _tool_call_counter' = 0
    /\ _recent_queries' = <<>>
    /\ run' = "reasoning"
    /\ last' = NoCall
    /\ search_calls' = <<>>
    /\ UNCHANGED <<pipeVars, sizingVars, runVars, raceVars, agentVars>>

\* firecrawl_search, lines 124-254, called by the agent.
firecrawl_search ==
    /\ run = "reasoning"
    /\ _tool_call_counter < MaxToolCalls
    /\ \E q \in Queries, limit \in Limits :
         LET w == WindowAfter(_recent_queries, q)
             called == ~LoopDetected(w, q)
         IN  \E resp \in (IF called THEN SearchResponses(ProviderLimit(limit))
                          ELSE {SearchResp(FALSE, TRUE, FALSE, 0, TRUE, FALSE, 0)}) :
               /\ _tool_call_counter' = _tool_call_counter + 1
               /\ _recent_queries' = w
               /\ search_calls' =
                    Append(search_calls, [query |-> q, provider_called |-> called])
               /\ last' = SearchCall(w, q, limit, resp)
    /\ UNCHANGED run
    /\ UNCHANGED <<pipeVars, sizingVars, runVars, raceVars, agentVars>>

\* firecrawl_scrape, lines 271-349, called by the agent.
firecrawl_scrape ==
    /\ run = "reasoning"
    /\ _tool_call_counter < MaxToolCalls
    /\ \E url \in Urls, resp \in ScrapeResponses :
         /\ _tool_call_counter' = _tool_call_counter + 1
         /\ last' = ScrapeCall(url, resp)
    /\ UNCHANGED <<_recent_queries, run, search_calls>>
    /\ UNCHANGED <<pipeVars, sizingVars, runVars, raceVars, agentVars>>

\* The agent emits its final answer (line 611 returns).
agent_final ==
    /\ run = "reasoning"
    /\ run' = "final"
    /\ UNCHANGED <<_tool_call_counter, _recent_queries, last, search_calls>>
    /\ UNCHANGED <<pipeVars, sizingVars, runVars, raceVars, agentVars>>

NextTools ==
    \/ generate_segments
    \/ firecrawl_search
    \/ firecrawl_scrape
    \/ agent_final

SpecTools == InitTools /\ [][NextTools]_vars

(***************************************************************************)
(* SpecPipeline: firecrawl_pipeline.run_complete_pipeline, lines 361-609.  *)
(***************************************************************************)
GenCredits == {0, 5}
SizingCredits == {3}

InitPipeline ==
    /\ ToolsIdle
    /\ SizingIdle
    /\ RunIdle
    /\ AgentIdle
    /\ RaceIdle
    /\ p_pc = "generate"
    /\ size_all_segments \in BOOLEAN
    /\ gen_outcome = "none"
    /\ segments = <<>>
    /\ segments_to_process = <<>>
    /\ p_i = 0
    /\ size_outcomes = <<>>
    /\ market_sizing_results = <<>>
    /\ tracker = CreditTracker
    /\ files = <<>>
    /\ p_result = "none"
    /\ p_events = <<>>

\* A generation failure that falls through to the sizing step.
AfterGenerationFailureContinue == "select"

\* Where the run goes when the generation try block raises, lines 450-452.
AfterGenerationFailure == "returned"

\* Lines 396-452, the call or a statement after it raises: return None.
rcp_generate_raises ==
    /\ p_pc = "generate"
    /\ gen_outcome' = "raise"
    /\ p_pc' = AfterGenerationFailure
    /\ p_result' = IF AfterGenerationFailure = "returned" THEN "None" ELSE p_result
    /\ p_events' = Append(p_events, "call")
    /\ UNCHANGED <<size_all_segments, segments, segments_to_process, p_i,
                   size_outcomes, market_sizing_results, tracker, files>>
    /\ UNCHANGED <<toolVars, sizingVars, runVars, raceVars, agentVars>>

\* Lines 396-448, the generation call returns its segments.
rcp_generate_ok ==
    /\ p_pc = "generate"
    /\ \E segs \in GeneratedLists, credits \in GenCredits :
         /\ tracker' = add_operation(tracker, "Segment Generation", credits)
         /\ segments' = segs
    /\ gen_outcome' = "ok"
    /\ p_events' = Append(p_events, "call")
    /\ p_pc' = "select"
    /\ UNCHANGED <<size_all_segments, segments_to_process, p_i, size_outcomes,
                   market_sizing_results, files, p_result>>
    /\ UNCHANGED <<toolVars, sizingVars, runVars, raceVars, agentVars>>

\* A filter that keeps the primary segment only.
IsTargetPrimaryOnly(s) == s.priority_level = "primary"

\* Lines 462-466.
IsTarget(s) == s.priority_level \in {"primary", "secondary"}

SelectTargets(segs, size_all) ==
    IF size_all THEN segs ELSE SelectSeq(segs, IsTarget)

\* Lines 462-470.
rcp_select ==
    /\ p_pc = "select"
    /\ segments_to_process' = SelectTargets(segments, size_all_segments)
    /\ market_sizing_results' = <<>>
    /\ p_i' = 1
    /\ p_pc' = "sizing"
    /\ UNCHANGED <<size_all_segments, gen_outcome, segments, size_outcomes,
                   tracker, files, p_result, p_events>>
    /\ UNCHANGED <<toolVars, sizingVars, runVars, raceVars, agentVars>>

\* The entries of lines 524-531 and 540-544.
SizedEntry(segment) ==
    [segment |-> segment, market_sizing |-> "data", error |-> FALSE]

ErrorEntry(segment) ==
    [segment |-> segment, market_sizing |-> "null", error |-> TRUE]

\* A handler that only reports the failure and records nothing.
OnSizingFailureDropped(entries, segment) == entries

\* except Exception, lines 538-544: what the failure of one segment does to
\* the result list.
OnSizingFailure(entries, segment) == Append(entries, ErrorEntry(segment))

InLoop == p_pc = "sizing" /\ p_i <= Len(segments_to_process)

\* Lines 533-536, at the end of the try block: the sleep before the next
\* segment.
RateLimit(events, i, n) == IF i < n THEN Append(events, "sleep") ELSE events

\* One iteration, lines 472-536: the sizing call returns well-formed data.
rcp_size_ok ==
    /\ InLoop
    /\ \E credits \in SizingCredits :
         tracker' = add_operation(tracker, "Market Sizing", credits)
    /\ market_sizing_results' =
           Append(market_sizing_results, SizedEntry(segments_to_process[p_i]))
    /\ size_outcomes' = Append(size_outcomes, "ok")
    /\ p_events' = RateLimit(Append(p_events, "call"), p_i, Len(segments_to_process))
    /\ p_i' = p_i + 1
    /\ UNCHANGED <<p_pc, size_all_segments, gen_outcome, segments,
                   segments_to_process, files, p_result>>
    /\ UNCHANGED <<toolVars, sizingVars, runVars, raceVars, agentVars>>

\* One iteration, lines 472-495 and 538-544: the sizing call raises.
rcp_size_raises ==
    /\ InLoop
    /\ market_sizing_results' =
           OnSizingFailure(market_sizing_results, segments_to_process[p_i])
    /\ size_outcomes' = Append(size_outcomes, "raise")
    /\ p_events' = Append(p_events, "call")
    /\ p_i' = p_i + 1
    /\ UNCHANGED <<p_pc, size_all_segments, gen_outcome, segments,
                   segments_to_process, tracker, files, p_result>>
    /\ UNCHANGED <<toolVars, sizingVars, runVars, raceVars, agentVars>>

\* One iteration, lines 472-521 and 538-544: the call returns, the operation
\* is tracked, and the data lacks population/pricing so line 520 raises.
rcp_size_bad_data ==
    /\ InLoop
    /\ \E credits \in SizingCredits :
         tracker' = add_operation(tracker, "Market Sizing", credits)
    /\ market_sizing_results' =
           OnSizingFailure(market_sizing_results, segments_to_process[p_i])
    /\ size_outcomes' = Append(size_outcomes, "bad_data")
    /\ p_events' = Append(p_events, "call")
    /\ p_i' = p_i + 1
    /\ UNCHANGED <<p_pc, size_all_segments, gen_outcome, segments,
                   segments_to_process, files, p_result>>
    /\ UNCHANGED <<toolVars, sizingVars, runVars, raceVars, agentVars>>

\* Line 560 divides by len(tracker.operations[1:]).
SummaryRaises(t) == Len(t.operations) - 1 = 0

\* Lines 549-584: the summary printed after the loop.
rcp_summary ==
    /\ p_pc = "sizing"
    /\ p_i > Len(segments_to_process)
    /\ IF SummaryRaises(tracker)
       THEN p_pc' = "raised" /\ p_result' = "ZeroDivisionError"
       ELSE p_pc' = "persist" /\ UNCHANGED p_result
    /\ UNCHANGED <<size_all_segments, gen_outcome, segments, segments_to_process,
                   p_i, size_outcomes, market_sizing_results, tracker, files,
                   p_events>>
    /\ UNCHANGED <<toolVars, sizingVars, runVars, raceVars, agentVars>>

\* Lines 590-601.
OutputData ==
    [credit_summary |-> get_summary(tracker),
     segments_generated |-> segments,
     market_sizing_results |-> market_sizing_results]

\* A tail that comes back to the write instead of returning.
AfterPersistAgain == "persist"

\* Line 609: after the write the function returns.
AfterPersist == "returned"

\* Lines 586-609: write the document and return it.
rcp_persist ==
    /\ p_pc = "persist"
    /\ files' = Append(files, OutputData)
    /\ p_result' = "output_data"
    /\ p_pc' = AfterPersist
    /\ UNCHANGED <<size_all_segments, gen_outcome, segments, segments_to_process,
                   p_i, size_outcomes, market_sizing_results, tracker, p_events>>
    /\ UNCHANGED <<toolVars, sizingVars, runVars, raceVars, agentVars>>

NextPipeline ==
    \/ rcp_generate_raises
    \/ rcp_generate_ok
    \/ rcp_select
    \/ rcp_size_ok
    \/ rcp_size_raises
    \/ rcp_size_bad_data
    \/ rcp_summary
    \/ rcp_persist

SpecPipeline == InitPipeline /\ [][NextPipeline]_vars

(***************************************************************************)
(* SpecSizing: langchain_firecrawl_agent.size_market_for_segments, lines   *)
(* 772-1140.  The coordinating thread filters and submits; each submitted  *)
(* segment is run by process_segment on a pool thread, whose agent calls   *)
(* the tools (on the module globals) and then returns or raises; the       *)
(* coordinating thread takes the futures as they complete.                 *)
(***************************************************************************)
PriorityList(prios) == [k \in DOMAIN prios |-> Segment(k, prios[k])]

\* The segment lists the phase is called with: none to size; the three
\* segments of lines 1179-1183; a secondary ahead of the primary; more than
\* three high-priority segments behind an alternative one, the primary last.
SizingInputs ==
    {PriorityList(<<"alternative">>),
     PriorityList(<<"primary", "secondary", "secondary">>),
     PriorityList(<<"secondary", "primary">>),
     PriorityList(<<"alternative", "secondary", "secondary", "secondary", "primary">>)}

\* The globals as an earlier generate_segments run may have left them; the
\* sizing phase does not reset them.
GlobalsBeforeSizing ==
    {[counter |-> 0, window |-> <<>>, run |-> "idle"],
     [counter |-> 2, window |-> <<"qX", "qX">>, run |-> "final"]}

\* The provider answers the sizing workers meet.
SizingSearchResponses ==
    {SearchResp(FALSE, TRUE, TRUE, 1, TRUE, TRUE, 2)}

SizingScrapeResponses == {ScrapeResp(FALSE, TRUE, TRUE, ScrapeCeiling)}

DefaultSearchLimit == 10

InitSizing ==
    /\ \E g \in GlobalsBeforeSizing :
         /\ _tool_call_counter = g.counter
         /\ _recent_queries = g.window
         /\ run = g.run
    /\ last = NoCall
    /\ search_calls = <<>>
    /\ PipelineIdle
    /\ RunIdle
    /\ AgentIdle
    /\ RaceIdle
    /\ s_input \in SizingInputs
    /\ top_segments = <<>>
    /\ co_pc = "filter"
    /\ workers = <<>>
    /\ collected = {}
    /\ results = <<>>
    /\ errors_printed = {}
    /\ phase2 = NoPhase2

\* Line 788.
TopSegments(segs) ==
    LET top == SelectSeq(segs, IsTarget)
    IN  SubSeq(top, 1, Min(Len(top), TopN))

\* Lines 787-814.
smfs_filter ==
    /\ co_pc = "filter"
    /\ top_segments' = TopSegments(s_input)
    /\ results' = <<>>
    /\ co_pc' = IF TopSegments(s_input) = <<>> THEN "join" ELSE "submit"
    /\ UNCHANGED <<s_input, workers, collected, errors_printed, phase2>>
    /\ UNCHANGED <<toolVars, pipeVars, runVars, raceVars, agentVars>>

NewWorker ==
    [st |-> "pending", invoked |-> 0, own |-> <<>>, searches |-> 0, scrapes |-> 0,
     credits |-> 0, loop_hit |-> FALSE, loop_own |-> 0,
     result |-> [segment_name |-> 0, priority |-> "", structured_data |-> "null",
                 tool_calls |-> 0, search_count |-> 0, scrape_count |-> 0,
                 credits_used |-> 0]]

\* Line 1091: executor.submit, one segment after the other in list order.
smfs_submit ==
    /\ co_pc = "submit"
    /\ Len(workers) < Len(top_segments)
    /\ workers' = Append(workers, NewWorker)
    /\ co_pc' = IF Len(workers) + 1 = Len(top_segments) THEN "collect" ELSE "submit"
    /\ UNCHANGED <<s_input, top_segments, collected, results, errors_printed, phase2>>
    /\ UNCHANGED <<toolVars, pipeVars, runVars, raceVars, agentVars>>

Running == {w \in DOMAIN workers : workers[w].st = "running"}

Finished == {w \in DOMAIN workers : workers[w].st \in {"returned", "raised"}}

RECURSIVE SumOver(_, _)
SumOver(S, f) ==
    IF S = {} THEN 0
    ELSE LET x == CHOOSE y \in S : TRUE
         IN  f[x] + SumOver(S \ {x}, f)

SizingCallsMade ==
    SumOver(DOMAIN workers,
            [w \in DOMAIN workers |-> workers[w].searches + workers[w].scrapes])

\* ThreadPoolExecutor(max_workers=3), line 1090: a pool thread takes a
\* pending future and begins process_segment, lines 817-939, which calls
\* agent.invoke at line 937.
process_segment_start(w) ==
    /\ workers[w].st = "pending"
    /\ Cardinality(Running) < PoolSize
    /\ workers' = [workers EXCEPT ![w].st = "running", ![w].invoked = @ + 1]
    /\ UNCHANGED <<s_input, top_segments, co_pc, collected, results,
                   errors_printed, phase2>>
    /\ UNCHANGED <<toolVars, pipeVars, runVars, raceVars, agentVars>>

\* The agent of worker w calls firecrawl_search, lines 124-254.
worker_search(w) ==
    /\ workers[w].st = "running"
    /\ SizingCallsMade < MaxSizingCalls
    /\ \E q \in Queries :
         LET win == WindowAfter(_recent_queries, q)
             called == ~LoopDetected(win, q)
         IN  \E resp \in (IF called THEN SizingSearchResponses
                          ELSE {SearchResp(FALSE, TRUE, FALSE, 0, TRUE, FALSE, 0)}) :
               LET ret == SearchReturn(win, q, DefaultSearchLimit, resp)
               IN  /\ _tool_call_counter' = _tool_call_counter + 1
                   /\ _recent_queries' = win
                   /\ workers' =
                        [workers EXCEPT
                           ![w].own = Append(@, q),
                           ![w].searches = @ + 1,
                           ![w].credits = @ + ret.env.credits_used,
                           ![w].loop_hit = ~called,
                           ![w].loop_own =
                               IF called THEN 0
                               ELSE identical_count(Append(workers[w].own, q), q)]
    /\ UNCHANGED <<run, last, search_calls>>
    /\ UNCHANGED <<s_input, top_segments, co_pc, collected, results,
                   errors_printed, phase2>>
    /\ UNCHANGED <<pipeVars, runVars, raceVars, agentVars>>

\* The agent of worker w calls firecrawl_scrape, lines 271-349.
worker_scrape(w) ==
    /\ workers[w].st = "running"
    /\ SizingCallsMade < MaxSizingCalls
    /\ \E url \in Urls, resp \in SizingScrapeResponses :
         LET ret == ScrapeReturn(url, resp)
         IN  /\ _tool_call_counter' = _tool_call_counter + 1
             /\ workers' = [workers EXCEPT ![w].scrapes = @ + 1,
                                           ![w].credits = @ + ret.env.credits_used]
    /\ UNCHANGED <<_recent_queries, run, last, search_calls>>
    /\ UNCHANGED <<s_input, top_segments, co_pc, collected, results,
                   errors_printed, phase2>>
    /\ UNCHANGED <<pipeVars, runVars, raceVars, agentVars>>

\* Lines 1072-1087: the dict process_segment returns for worker w.
SegmentResult(w, final) ==
    [segment_name |-> top_segments[w].segment_name,
     priority |-> top_segments[w].priority_level,
     structured_data |-> IF final = "json" THEN "data" ELSE "null",
     tool_calls |-> workers[w].searches + workers[w].scrapes,
     search_count |-> workers[w].searches,
     scrape_count |-> workers[w].scrapes,
     credits_used |-> workers[w].credits]

\* agent.invoke returns, lines 937-1087: the tally, the parse of the final
\* answer (JSON or not), and the returned dict.
process_segment_returns(w) ==
    /\ workers[w].st = "running"
    /\ \E final \in {"json", "text"} :
         workers' = [workers EXCEPT ![w].st = "returned",
                                    ![w].result = SegmentResult(w, final)]
    /\ UNCHANGED <<s_input, top_segments, co_pc, collected, results,
                   errors_printed, phase2>>
    /\ UNCHANGED <<toolVars, pipeVars, runVars, raceVars, agentVars>>

\* agent.invoke raises, line 937: process_segment ends with the exception.
process_segment_raises(w) ==
    /\ workers[w].st = "running"
    /\ workers' = [workers EXCEPT ![w].st = "raised"]
    /\ UNCHANGED <<s_input, top_segments, co_pc, collected, results,
                   errors_printed, phase2>>
    /\ UNCHANGED <<toolVars, pipeVars, runVars, raceVars, agentVars>>

\* A loop that waits for another future after the last one was yielded.
LoopOnForever(all_yielded) == "collect"

\* Line 1093: the as_completed loop goes on until every future was yielded.
LoopOn(all_yielded) == IF all_yielded THEN "join" ELSE "collect"

\* A loop that takes a future's result without waiting for its worker.
as_completed_unfinished(w) == w \notin collected /\ workers[w].st # "pending"

\* Line 1093: as_completed yields each future once, when its worker is done.
as_completed(w) == w \notin collected /\ workers[w].st \in {"returned", "raised"}

\* Lines 1093-1096: as_completed yields a future and future.result() gives
\* the dict its worker returned.
smfs_collect_result(w) ==
    /\ co_pc = "collect"
    /\ as_completed(w)
    /\ workers[w].st # "raised"
    /\ results' = Append(results, workers[w].result)
    /\ collected' = collected \cup {w}
    /\ co_pc' = LoopOn(collected \cup {w} = DOMAIN workers)
    /\ UNCHANGED <<s_input, top_segments, workers, errors_printed, phase2>>
    /\ UNCHANGED <<toolVars, pipeVars, runVars, raceVars, agentVars>>

\* An except clause that leaves the as_completed loop.
AfterWorkerExceptionAbort(all_yielded) == "join"

\* Where the coordinating thread goes after the except clause of lines
\* 1097-1099: on with the as_completed loop.
AfterWorkerException(all_yielded) == LoopOn(all_yielded)

\* Lines 1093-1099: as_completed yields a future and future.result() raises
\* what its worker raised; the except clause prints the segment's name.
smfs_collect_exception(w) ==
    /\ co_pc = "collect"
    /\ as_completed(w)
    /\ workers[w].st = "raised"
    /\ errors_printed' = errors_printed \cup {top_segments[w].segment_name}
    /\ collected' = collected \cup {w}
    /\ co_pc' = AfterWorkerException(collected \cup {w} = DOMAIN workers)
    /\ UNCHANGED <<s_input, top_segments, workers, results, phase2>>
    /\ UNCHANGED <<toolVars, pipeVars, runVars, raceVars, agentVars>>

ResultsSum(field) ==
    SumOver(DOMAIN results, [k \in DOMAIN results |-> results[k][field]])

\* Lines 1100-1140: the loop is over and the with block has joined the pool
\* threads; the totals are computed and the summary is returned.
smfs_return ==
    /\ co_pc = "join"
    /\ Finished = DOMAIN workers
    /\ phase2' = [returned |-> TRUE,
                  n_results |-> Len(results),
                  total_credits |-> ResultsSum("credits_used"),
                  total_searches |-> ResultsSum("search_count"),
                  total_scrapes |-> ResultsSum("scrape_count")]
    /\ co_pc' = "returned"
    /\ UNCHANGED <<s_input, top_segments, workers, collected, results, errors_printed>>
    /\ UNCHANGED <<toolVars, pipeVars, runVars, raceVars, agentVars>>

NextSizing ==
    \/ smfs_filter
    \/ smfs_submit
    \/ \E w \in DOMAIN workers : process_segment_start(w)
    \/ \E w \in DOMAIN workers : worker_search(w)
    \/ \E w \in DOMAIN workers : worker_scrape(w)
    \/ \E w \in DOMAIN workers : process_segment_returns(w)
    \/ \E w \in DOMAIN workers : process_segment_raises(w)
    \/ \E w \in DOMAIN workers : smfs_collect_result(w)
    \/ \E w \in DOMAIN workers : smfs_collect_exception(w)
    \/ smfs_return

SpecSizing == InitSizing /\ [][NextSizing]_vars

(***************************************************************************)
(* The sizing phase under the scheduling the program runs with: the        *)
(* coordinating thread is not blocked for ever while it has a statement to *)
(* run or a finished future to take (lines 787-1140), a pool thread takes  *)
(* a pending future while fewer than max_workers are busy (line 1090), and *)
(* agent.invoke of a running worker comes back, by returning or raising    *)
(* (line 937).                                                             *)
(***************************************************************************)
SizingFairness ==
    /\ WF_vars(smfs_filter)
    /\ WF_vars(smfs_submit)
    /\ WF_vars(\E w \in DOMAIN workers : process_segment_start(w))
    /\ WF_vars(\E w \in DOMAIN workers :
                  process_segment_returns(w) \/ process_segment_raises(w))
    /\ WF_vars(\E w \in DOMAIN workers :
                  smfs_collect_result(w) \/ smfs_collect_exception(w))
    /\ WF_vars(smfs_return)

\* size_market_for_segments called in a fresh process, the globals as lines
\* 20-21 initialise them, with up to three segments.
InitSizingFair ==
    /\ InitSizing
    /\ _tool_call_counter = 0
    /\ _recent_queries = <<>>
    /\ Len(s_input) <= 3

SpecSizingFair == InitSizingFair /\ [][NextSizing]_vars /\ SizingFairness

(***************************************************************************)
(* SpecAgentPipeline: langchain_firecrawl_agent.run_complete_pipeline,     *)
(* lines 1143-1322: generate_segments, then size_market_for_segments (the  *)
(* steps of SpecSizing), then the combined figures, written and returned.  *)
(***************************************************************************)
\* Lines 1179-1183.
mock_segments == PriorityList(<<"primary", "secondary", "secondary">>)

\* What generate_segments returned (lines 755-769): the parsed segments, or
\* none when the final answer did not parse, and the figures of its tally.
Phase1Segments ==
    {[parsed |-> FALSE, segments |-> <<>>],
     [parsed |-> TRUE,
      segments |-> <<Segment(11, "secondary"), Segment(12, "alternative"),
                     Segment(13, "primary")>>]}

Phase1Outcomes ==
    {[result |-> [parsed |-> g.parsed, structured_segments |-> g.segments,
                  credits_used |-> DefaultSearchCredits * u.counter,
                  search_count |-> u.counter, scrape_count |-> 0],
      counter |-> u.counter, window |-> u.window] :
        g \in Phase1Segments, u \in GlobalsBeforeSizing}

InitAgentPipeline ==
    /\ ToolsIdle
    /\ PipelineIdle
    /\ SizingIdle
    /\ RunIdle
    /\ RaceIdle
    /\ lc_pc = "start"
    /\ segment_result = NoSegmentResult
    /\ complete_results = NoCompleteResults

\* Lines 1175-1186: generate_segments returns and size_market_for_segments is
\* called with mock_segments.
lc_generate ==
    /\ lc_pc = "start"
    /\ \E o \in Phase1Outcomes :
         /\ segment_result' = o.result
         /\ _tool_call_counter' = o.counter
         /\ _recent_queries' = o.window
    /\ run' = "final"
    /\ s_input' = mock_segments
    /\ co_pc' = "filter"
    /\ lc_pc' = "sizing"
    /\ UNCHANGED <<last, search_calls, complete_results>>
    /\ UNCHANGED <<top_segments, workers, collected, results, errors_printed, phase2>>
    /\ UNCHANGED <<pipeVars, runVars, raceVars>>

\* Line 1175: agent.invoke raised inside generate_segments (line 611), which
\* has no handler around it, and neither has run_complete_pipeline.
lc_generate_raises ==
    /\ lc_pc = "start"
    /\ lc_pc' = "raised"
    /\ UNCHANGED <<segment_result, complete_results>>
    /\ UNCHANGED <<toolVars, pipeVars, sizingVars, runVars, raceVars>>

\* Lines 1186-1322: size_market_for_segments returned; the figures of the
\* two phases are added, the document is written and returned.
lc_finish ==
    /\ lc_pc = "sizing"
    /\ co_pc = "returned"
    /\ complete_results' =
         [written |-> complete_results.written + 1,
          sized |-> results,
          total_credits |-> segment_result.credits_used + phase2.total_credits,
          total_searches |-> segment_result.search_count + phase2.total_searches,
          total_scrapes |-> segment_result.scrape_count + phase2.total_scrapes]
    /\ lc_pc' = "returned"
    /\ UNCHANGED segment_result
    /\ UNCHANGED <<toolVars, pipeVars, sizingVars, runVars, raceVars>>

NextAgentPipeline ==
    \/ lc_generate
    \/ lc_generate_raises
    \/ NextSizing
    \/ lc_finish

SpecAgentPipeline == InitAgentPipeline /\ [][NextAgentPipeline]_vars

(***************************************************************************)
(* SpecRun: langchain_firecrawl_agent.generate_segments, lines 483-769,    *)
(* from the reset of the globals through agent.invoke (the agent calling   *)
(* the tools) to the tally of the messages, the parse of the final answer  *)
(* and the returned dict.                                                  *)
(***************************************************************************)
MaxRunCalls == 5

\* The provider answers the run meets: a fault, an empty result list that
\* carries a credit figure, and a normal result.
RunSearchResponses ==
    {SearchResp(TRUE, TRUE, FALSE, 0, TRUE, FALSE, 0),
     SearchResp(FALSE, TRUE, TRUE, 0, TRUE, TRUE, 2),
     SearchResp(FALSE, TRUE, TRUE, 1, TRUE, TRUE, 2)}

RunScrapeResponses ==
    {ScrapeResp(FALSE, TRUE, TRUE, ScrapeCeiling),
     ScrapeResp(FALSE, FALSE, TRUE, 0)}

\* The final message of the agent.  json: json.loads accepts the text (after
\* the code fence is stripped); object: the JSON value is an object;
\* segments: what the object holds under "segments".
FinalAnswers ==
    {FinalAnswer(FALSE, FALSE, "absent"),       \* prose
     FinalAnswer(TRUE, FALSE, "absent"),        \* a JSON array or number
     FinalAnswer(TRUE, TRUE, "absent"),         \* an object without the key
     FinalAnswer(TRUE, TRUE, "null"),           \* "segments": null
     FinalAnswer(TRUE, TRUE, "malformed"),      \* entries lacking required fields
     FinalAnswer(TRUE, TRUE, "conforming")}

\* The answer matches the SegmentGenerationResult schema, lines 97-99.
Conforms(f) == f.json /\ f.object /\ f.segments = "conforming"

\* Lines 694-706: the local variable segments after the try block, "unbound"
\* when json.loads or .get raised before the assignment.
ParseSegments(f) ==
    IF ~f.json \/ ~f.object THEN "unbound"
    ELSE IF f.segments = "absent" THEN "empty_list"
    ELSE IF f.segments = "null" THEN "null"
    ELSE IF f.segments = "malformed" THEN "malformed_list"
    ELSE "segments"

\* Line 757: segments if 'segments' in locals() else None.
StructuredSegments(f) ==
    IF ParseSegments(f) = "unbound" THEN "null" ELSE ParseSegments(f)

\* A tool message of result["messages"]: the envelope the tool returned, with
\* the call that produced it.
Observation(call) ==
    [type |-> "tool", tool |-> call.tool, key |-> call.key, env |-> call.ret.env,
     provider_called |-> call.provider_called, resp_kind |-> call.resp_kind]

\* The AI message that ends the run.
AiMessage(f) == [type |-> "ai", content |-> f]

ToolMessages(msgs) == {k \in DOMAIN msgs : msgs[k].type = "tool"}

\* Lines 654-660: total_credits += tool_result.get('credits_used', 0), for
\* every message of type 'tool'.
TallyCredits(msgs) ==
    SumOver(ToolMessages(msgs),
            [k \in ToolMessages(msgs) |-> msgs[k].env.credits_used])

\* Lines 636-642: the tool calls of the AI messages, counted by name.
ToolCount(msgs, tool) ==
    Cardinality({k \in ToolMessages(msgs) : msgs[k].tool = tool})

\* Lines 688-769: final_message = result["messages"][-1].content, the parse,
\* and the returned dict.
GenerateSegmentsResult(msgs) ==
    LET final_message == msgs[Len(msgs)].content
    IN  [returned |-> TRUE,
         structured_segments |-> StructuredSegments(final_message),
         raw_result |-> final_message,
         messages_count |-> Len(msgs),
         credits_used |-> TallyCredits(msgs),
         search_count |-> ToolCount(msgs, "search"),
         scrape_count |-> ToolCount(msgs, "scrape")]

InitRun ==
    /\ \E g \in GlobalsBeforeSizing :
         /\ _tool_call_counter = g.counter
         /\ _recent_queries = g.window
         /\ run = g.run
    /\ last = NoCall
    /\ search_calls = <<>>
    /\ PipelineIdle
    /\ SizingIdle
    /\ RunIdle
    /\ AgentIdle
    /\ RaceIdle

\* Lines 497-611: the reset, then agent.invoke is entered.
gs_invoke ==
    /\ run \in {"idle", "final"}
    /\ invocations = 0
    /\ _tool_call_counter' = 0
    /\ _recent_queries' = <<>>
    /\ run' = "reasoning"
    /\ invocations' = invocations + 1
    /\ messages' = <<>>
    /\ UNCHANGED <<last, search_calls, gs_result>>
    /\ UNCHANGED <<pipeVars, sizingVars, raceVars, agentVars>>

\* The agent calls firecrawl_search and receives the observation.
gs_search ==
    /\ run = "reasoning"
    /\ Cardinality(ToolMessages(messages)) < MaxRunCalls
    /\ \E q \in Queries :
         LET w == WindowAfter(_recent_queries, q)
         IN  \E resp \in (IF ~LoopDetected(w, q) THEN RunSearchResponses
                          ELSE {SearchResp(FALSE, TRUE, FALSE, 0, TRUE, FALSE, 0)}) :
               /\ _tool_call_counter' = _tool_call_counter + 1
               /\ _recent_queries' = w
               /\ last' = SearchCall(w, q, DefaultSearchLimit, resp)
               /\ messages' =
                    Append(messages, Observation(SearchCall(w, q, DefaultSearchLimit, resp)))
    /\ UNCHANGED <<run, search_calls, invocations, gs_result>>
    /\ UNCHANGED <<pipeVars, sizingVars, raceVars, agentVars>>

\* The agent calls firecrawl_scrape and receives the observation.
gs_scrape ==
    /\ run = "reasoning"
    /\ Cardinality(ToolMessages(messages)) < MaxRunCalls
    /\ \E url \in Urls, resp \in RunScrapeResponses :
         /\ _tool_call_counter' = _tool_call_counter + 1
         /\ last' = ScrapeCall(url, resp)
         /\ messages' = Append(messages, Observation(ScrapeCall(url, resp)))
    /\ UNCHANGED <<_recent_queries, run, search_calls, invocations, gs_result>>
    /\ UNCHANGED <<pipeVars, sizingVars, raceVars, agentVars>>

\* agent.invoke returns with the final message; lines 615-769 tally the
\* messages, parse the final message and return.
gs_return ==
    /\ run = "reasoning"
    /\ \E f \in FinalAnswers :
         /\ messages' = Append(messages, AiMessage(f))
         /\ gs_result' = GenerateSegmentsResult(Append(messages, AiMessage(f)))
    /\ run' = "returned"
    /\ UNCHANGED <<_tool_call_counter, _recent_queries, last, search_calls,
                   invocations>>
    /\ UNCHANGED <<pipeVars, sizingVars, raceVars, agentVars>>

\* agent.invoke raises (line 611 is in no try block): generate_segments ends
\* with the exception.
gs_invoke_raises ==
    /\ run = "reasoning"
    /\ run' = "raised"
    /\ UNCHANGED <<_tool_call_counter, _recent_queries, last, search_calls,
                   messages, invocations, gs_result>>
    /\ UNCHANGED <<pipeVars, sizingVars, raceVars, agentVars>>

NextRun ==
    \/ gs_invoke
    \/ gs_search
    \/ gs_scrape
    \/ gs_return
    \/ gs_invoke_raises

SpecRun == InitRun /\ [][NextRun]_vars

(***************************************************************************)
(* SpecRace: the pool threads of size_market_for_segments (line 1090)      *)
(* inside firecrawl_search at the same time, lines 124-146 taken statement *)
(* by statement on the shared module globals.  A thread switch can fall    *)
(* between any two statements and between the load and the store of        *)
(* _tool_call_counter += 1; list.append, len, list.pop and list.count are  *)
(* each one step.                                                          *)
(***************************************************************************)
MaxRaceCalls == 2

RaceThreads == 1..PoolSize

\* The window as earlier searches left it: empty, or full.
RaceWindows == {<<>>, [k \in 1..WindowCapacity |-> "qY"]}

NewThread ==
    [pc |-> "idle", query |-> "", loaded |-> 0, calls |-> 0, reached |-> FALSE,
     window_at_return |-> <<>>, issued_at_return |-> 0]

InitRace ==
    /\ _recent_queries \in RaceWindows
    /\ _tool_call_counter = Len(_recent_queries)
    /\ issued = _recent_queries
    /\ threads = [t \in RaceThreads |-> NewThread]
    /\ run = "idle"
    /\ last = NoCall
    /\ search_calls = <<>>
    /\ PipelineIdle
    /\ SizingIdle
    /\ RunIdle
    /\ AgentIdle

RaceUnchanged ==
    UNCHANGED <<run, last, search_calls, pipeVars, sizingVars, runVars, agentVars>>

\* The calls entered so far, completed or not.
RaceCallsEntered ==
    SumOver(RaceThreads,
            [t \in RaceThreads |->
                threads[t].calls + (IF threads[t].pc = "idle" THEN 0 ELSE 1)])

\* The agent of thread t calls firecrawl_search(query).
fs_enter(t) ==
    /\ threads[t].pc = "idle"
    /\ RaceCallsEntered < MaxRaceCalls
    /\ \E q \in Queries :
         threads' = [threads EXCEPT ![t].pc = "load", ![t].query = q]
    /\ UNCHANGED <<_tool_call_counter, _recent_queries, issued>>
    /\ RaceUnchanged

\* Line 127, first half: the value of _tool_call_counter is loaded.
fs_load_counter(t) ==
    /\ threads[t].pc = "load"
    /\ threads' = [threads EXCEPT ![t].pc = "store", ![t].loaded = _tool_call_counter]
    /\ UNCHANGED <<_tool_call_counter, _recent_queries, issued>>
    /\ RaceUnchanged

\* Line 127, second half: the loaded value plus one is stored.
fs_store_counter(t) ==
    /\ threads[t].pc = "store"
    /\ _tool_call_counter' = threads[t].loaded + 1
    /\ threads' = [threads EXCEPT ![t].pc = "append"]
    /\ UNCHANGED <<_recent_queries, issued>>
    /\ RaceUnchanged

\* Line 130: _recent_queries.append(query).
fs_append(t) ==
    /\ threads[t].pc = "append"
    /\ _recent_queries' = Append(_recent_queries, threads[t].query)
    /\ issued' = Append(issued, threads[t].query)
    /\ threads' = [threads EXCEPT ![t].pc = "test"]
    /\ UNCHANGED _tool_call_counter
    /\ RaceUnchanged

\* Line 131: if len(_recent_queries) > 10.
fs_test_len(t) ==
    /\ threads[t].pc = "test"
    /\ threads' = [threads EXCEPT
                      ![t].pc = IF Len(_recent_queries) > WindowCapacity
                                THEN "pop" ELSE "count"]
    /\ UNCHANGED <<_tool_call_counter, _recent_queries, issued>>
    /\ RaceUnchanged

\* Line 132: _recent_queries.pop(0).
fs_pop(t) ==
    /\ threads[t].pc = "pop"
    /\ _recent_queries' = Tail(_recent_queries)
    /\ threads' = [threads EXCEPT ![t].pc = "count"]
    /\ UNCHANGED <<_tool_call_counter, issued>>
    /\ RaceUnchanged

\* Lines 134-135: identical_count = _recent_queries.count(query) and the
\* comparison with the threshold.
fs_count(t) ==
    /\ threads[t].pc = "count"
    /\ threads' = [threads EXCEPT
                      ![t].pc = "return",
                      ![t].reached = ~LoopDetected(_recent_queries, threads[t].query)]
    /\ UNCHANGED <<_tool_call_counter, _recent_queries, issued>>
    /\ RaceUnchanged

\* Lines 136-254: the rest of the call touches no shared state; the call
\* completes.
fs_return(t) ==
    /\ threads[t].pc = "return"
    /\ threads' = [threads EXCEPT ![t].pc = "idle",
                                  ![t].calls = @ + 1,
                                  ![t].window_at_return = _recent_queries,
                                  ![t].issued_at_return = Len(issued)]
    /\ UNCHANGED <<_tool_call_counter, _recent_queries, issued>>
    /\ RaceUnchanged

NextRace ==
    \/ \E t \in RaceThreads : fs_enter(t)
    \/ \E t \in RaceThreads : fs_load_counter(t)
    \/ \E t \in RaceThreads : fs_store_counter(t)
    \/ \E t \in RaceThreads : fs_append(t)
    \/ \E t \in RaceThreads : fs_test_len(t)
    \/ \E t \in RaceThreads : fs_pop(t)
    \/ \E t \in RaceThreads : fs_count(t)
    \/ \E t \in RaceThreads : fs_return(t)

SpecRace == InitRace /\ [][NextRace]_vars

(***************************************************************************)
(* Properties of the tools, checked under SpecTools.                       *)
(***************************************************************************)
Occurrences(w, q) == Cardinality({i \in DOMAIN w : w[i] = q})

LastEnv == last.ret.env

\* C1: a firecrawl_search call whose query, counting the call itself, occurs 3
\* or more times in the sliding window returns the synthetic envelope with
\* credits_used = 0 and an empty result list, and the provider is not invoked.
C1_LoopShortCircuit ==
    (last.tool = "search" /\ Occurrences(_recent_queries, last.key) >= 3)
        => /\ last.ret.kind = "returned"
           /\ LastEnv.credits_used = 0
           /\ LastEnv.payload = 0
           /\ LastEnv.count = 0
           /\ LastEnv.note = "loop"
           /\ ~last.provider_called

\* C1 witness: a 4th or later identical call in a full window was short-circuited.
C1_Witness ==
    /\ last.tool = "search"
    /\ Len(_recent_queries) = WindowCapacity
    /\ Occurrences(_recent_queries, last.key) >= 4
    /\ ~last.provider_called
    /\ LastEnv.credits_used = 0

\* C2: firecrawl_search and firecrawl_scrape never raise: whatever the provider
\* does, the call returns an envelope whose success field is true.
C2_NeverRaises ==
    last.tool \in {"search", "scrape"}
        => /\ last.ret.kind = "returned"
           /\ LastEnv.success = TRUE

\* C2 witness: a search whose provider threw, or answered with malformed
\* items, has returned its envelope.
C2_Witness ==
    /\ last.tool = "search"
    /\ last.provider_called
    /\ last.resp_kind \in {"exception", "malformed"}
    /\ last.ret.kind = "returned"
    /\ LastEnv.success = TRUE

FailureKinds == {"exception", "provider_error", "no_data", "empty", "malformed"}

\* C3: every failure mode of a tool call (provider error, empty result,
\* exception, malformed response) yields an envelope with credits_used = 0, a
\* populated note and an empty payload, whatever credit figure the provider's
\* response carries.
C3_FailureIsZeroCost ==
    (last.tool \in {"search", "scrape"} /\ last.provider_called
     /\ last.resp_kind \in FailureKinds)
        => /\ last.ret.kind = "returned"
           /\ LastEnv.credits_used = 0
           /\ LastEnv.note # ""
           /\ LastEnv.payload = 0

\* The occurrences of call n's query among the 10 searches issued up to and
\* including call n.
RecentOccurrences(n) ==
    Cardinality({j \in 1..n : /\ j > n - 10
                              /\ search_calls[j].query = search_calls[n].query})

\* C17: a search call reaches the provider exactly when its query, counting
\* the call itself, occurs fewer than 3 times among the 10 most recently
\* issued queries; of consecutive calls with one query in a fresh run the
\* first two reach the provider and the third to fifth do not; a query whose
\* earlier occurrences were evicted reaches the provider again.
C17_ProviderReachedBelowThreshold ==
    /\ \A n \in DOMAIN search_calls :
         search_calls[n].provider_called <=> RecentOccurrences(n) < 3
    /\ \A n \in DOMAIN search_calls :
         (n <= 5 /\ \A j \in 1..n : search_calls[j].query = search_calls[1].query)
             => (search_calls[n].provider_called <=> n <= 2)

\* C17 witness: the 12th search of a run repeats the query of the first three
\* (the third was short-circuited) after eight searches for another query,
\* and reaches the provider.
C17_Witness ==
    /\ Len(search_calls) = 12
    /\ \A j \in 1..3 : search_calls[j].query = search_calls[12].query
    /\ \A j \in 4..11 : search_calls[j].query # search_calls[12].query
    /\ ~search_calls[3].provider_called
    /\ search_calls[12].provider_called
    /\ last.provider_called

PipelineEnded == p_pc \in {"returned", "raised"}

SizingLoopDone == p_pc \in {"persist", "returned", "raised"} /\ gen_outcome = "ok"

\* C7: once segment generation has succeeded, no combination of sizing
\* outcomes terminates the run: the pipeline reaches the persist step and
\* writes one result document holding the generated segments and the sizing
\* entries obtained.
C7_SizingFailuresNeverTerminate ==
    (PipelineEnded /\ gen_outcome = "ok")
        => /\ p_result = "output_data"
           /\ Len(files) = 1
           /\ files[1].segments_generated = segments
           /\ files[1].market_sizing_results = market_sizing_results

\* C8: when segment generation raises, the pipeline returns None, no sizing
\* call is issued and no sizing entry is produced; no sizing call is issued
\* before generation has succeeded.
C8_GenerationFailureHalts ==
    /\ gen_outcome = "raise"
         => /\ p_pc = "returned"
            /\ p_result = "None"
            /\ size_outcomes = <<>>
            /\ market_sizing_results = <<>>
            /\ files = <<>>
    /\ (size_outcomes # <<>> \/ p_pc \in {"select", "sizing", "persist"})
         => gen_outcome = "ok"

\* C8 witness: the generation call raised and the run has returned None.
C8_Witness ==
    /\ gen_outcome = "raise"
    /\ p_pc = "returned"
    /\ p_result = "None"

\* C9: a segment's sizing failure is isolated to that segment: its entry has a
\* null market_sizing and an error field, the other segments are still
\* processed, and after the loop the sizing results hold exactly one entry per
\* selected segment, in selection order.
C9_SizingFailureIsolated ==
    /\ Len(market_sizing_results) = Len(size_outcomes)
    /\ Len(market_sizing_results) <= Len(segments_to_process)
    /\ \A k \in DOMAIN market_sizing_results :
         /\ market_sizing_results[k].segment = segments_to_process[k]
         /\ size_outcomes[k] # "ok"
              => /\ market_sizing_results[k].market_sizing = "null"
                 /\ market_sizing_results[k].error
         /\ size_outcomes[k] = "ok"
              => /\ market_sizing_results[k].market_sizing = "data"
                 /\ ~market_sizing_results[k].error
    /\ SizingLoopDone => Len(market_sizing_results) = Len(segments_to_process)

\* C9 witness: ten segments with 1 primary and 2 secondary were generated, the
\* first sizing call raised, the two after it succeeded, and the run was
\* persisted with 10 segments and 3 sizing entries.
C9_Witness ==
    /\ p_pc = "returned"
    /\ Len(files) = 1
    /\ Len(files[1].segments_generated) = 10
    /\ Len(files[1].market_sizing_results) = 3
    /\ size_outcomes = <<"raise", "ok", "ok">>
    /\ files[1].market_sizing_results[1].error
    /\ ~files[1].market_sizing_results[3].error

HighPriority(segs) ==
    {k \in DOMAIN segs : segs[k].priority_level \in {"primary", "secondary"}}

SizedNames == {market_sizing_results[k].segment.segment_name :
                   k \in DOMAIN market_sizing_results}

\* C10: with size_all_segments unset the segments sized are exactly the
\* generated segments whose priority is primary or secondary; with the flag
\* set they are all generated segments.
C10_TargetSelection ==
    SizingLoopDone
        => /\ ~size_all_segments
                => /\ SizedNames = {segments[k].segment_name : k \in HighPriority(segments)}
                   /\ Len(market_sizing_results) = Cardinality(HighPriority(segments))
           /\ size_all_segments
                => /\ SizedNames = {segments[k].segment_name : k \in DOMAIN segments}
                   /\ Len(market_sizing_results) = Len(segments)

\* C10 witness: with the flag unset, a list holding a primary, a secondary and
\* an alternative segment had exactly its two high-priority segments sized.
C10_Witness ==
    /\ SizingLoopDone
    /\ ~size_all_segments
    /\ Len(segments) = 3
    /\ {segments[k].priority_level : k \in DOMAIN segments} = Priorities
    /\ Len(market_sizing_results) = 2

(***************************************************************************)
(* Properties of one generate_segments run, checked under SpecRun.         *)
(***************************************************************************)
\* C12: when the final answer of an agent run does not conform to the expected
\* schema (prose, or well-formed JSON that violates the schema), the run
\* returns normally with the raw final message in raw_result and a null
\* structured_segments, and the agent was invoked once only.
C12_ParseFailureSurfaced ==
    (gs_result.returned /\ ~Conforms(messages[Len(messages)].content))
        => /\ run = "returned"
           /\ gs_result.raw_result = messages[Len(messages)].content
           /\ gs_result.structured_segments = "null"
           /\ invocations = 1

RECURSIVE ObservedCredits(_)
ObservedCredits(msgs) ==
    IF msgs = <<>> THEN 0
    ELSE (IF Head(msgs).type = "tool" THEN Head(msgs).env.credits_used ELSE 0)
         + ObservedCredits(Tail(msgs))

\* C20: the credits_used an agent run reports equals the sum of the
\* credits_used fields of the tool observations in its transcript, and the
\* short-circuited and the failed tool calls contribute 0, so that the run's
\* credits are exactly those of the calls that reached the provider and
\* succeeded.
C20_RunCreditsFromObservations ==
    gs_result.returned
        => /\ gs_result.credits_used = ObservedCredits(messages)
           /\ \A k \in ToolMessages(messages) :
                (~messages[k].provider_called \/ messages[k].resp_kind \in FailureKinds)
                    => messages[k].env.credits_used = 0

(***************************************************************************)
(* Properties of the CreditTracker, checked under SpecPipeline.            *)
(***************************************************************************)
RECURSIVE CreditsOf(_)
CreditsOf(operations) ==
    IF operations = <<>> THEN 0
    ELSE Head(operations).credits + CreditsOf(Tail(operations))

C14_PersistedOnce ==
    /\ Len(files) <= 1
    /\ files # <<>>
         => /\ p_pc = "returned"
            /\ gen_outcome = "ok"
            /\ Len(size_outcomes) = Len(segments_to_process)
            /\ Len(market_sizing_results) = Len(segments_to_process)
            /\ files[1].market_sizing_results = market_sizing_results
    /\ (p_pc = "returned" /\ p_result = "output_data") => Len(files) = 1
    /\ p_pc \in {"generate", "select", "sizing", "persist"} => files = <<>>
    /\ gen_outcome = "raise" => files = <<>>

\* C14 witness: a run with three sizing targets, one of which failed, has
\* returned with its one document, which holds the three entries.
C14_Witness ==
    /\ p_pc = "returned"
    /\ Len(files) = 1
    /\ Len(segments_to_process) = 3
    /\ Len(files[1].market_sizing_results) = 3
    /\ \E k \in 1..3 : size_outcomes[k] = "raise"
    /\ \E k \in 1..3 : size_outcomes[k] = "ok"

(***************************************************************************)
(* Properties of the parallel sizing phase, checked under SpecSizing.      *)
(***************************************************************************)
Raisers == {w \in DOMAIN workers : workers[w].st = "raised"}

Returners == {w \in DOMAIN workers : workers[w].st = "returned"}

EntriesFor(w) ==
    {k \in DOMAIN results : results[k].segment_name = top_segments[w].segment_name}

\* C4: a worker that fails with an exception is recorded as an error entry in
\* its segment's slot of the returned results, no sibling and not the
\* orchestrator is cancelled, and the output has one entry (result or error)
\* for every submitted segment.
C4_WorkerFailureRecorded ==
    co_pc = "returned"
        => /\ Finished = DOMAIN workers
           /\ Len(workers) = Len(top_segments)
           /\ Len(results) = Len(top_segments)
           /\ \A w \in Raisers : Cardinality(EntriesFor(w)) = 1

\* C5: for every completion order, every worker that returned has its result
\* in the output, identified by the segment_name of the segment it processed
\* and carrying that worker's own figures; with 3 submitted segments and no
\* failure all 3 are present, and when exactly one worker raises the results
\* of the other 2 are present and complete.
C5_ResultsPresentByName ==
    co_pc = "returned"
        => /\ Len(results) = Cardinality(Returners)
           /\ \A w \in Returners :
                /\ Cardinality(EntriesFor(w)) = 1
                /\ \A k \in EntriesFor(w) :
                     /\ results[k].priority = top_segments[w].priority_level
                     /\ results[k].credits_used = workers[w].credits
                     /\ results[k].search_count = workers[w].searches
                     /\ results[k].scrape_count = workers[w].scrapes

\* C5 witness: of the three submitted segments (1 primary, 2 secondary) one
\* worker raised, and the two other results are in the output in an order
\* that is not the submission order.
C5_Witness ==
    /\ co_pc = "returned"
    /\ Len(top_segments) = 3
    /\ Cardinality({k \in 1..3 : top_segments[k].priority_level = "primary"}) = 1
    /\ Cardinality({k \in 1..3 : top_segments[k].priority_level = "secondary"}) = 2
    /\ Cardinality(Raisers) = 1
    /\ Len(results) = 2
    /\ results[1].segment_name > results[2].segment_name
    /\ results[1].credits_used > 0

\* C6: the sizing workers share no mutable state: a worker's loop-guard
\* decision depends only on the queries that worker itself issued, so a call of
\* a worker is short-circuited only when its query occurs 3 or more times
\* among that worker's own queries.
C6_WorkersShareNothing ==
    \A w \in DOMAIN workers :
        workers[w].loop_hit => workers[w].loop_own >= _max_identical_queries

\* C13: when the input segment list contains a primary segment, the primary
\* segment is among the submitted sizing targets and was submitted to the pool
\* before every secondary segment.
C13_PrimarySubmittedFirst ==
    (\E k \in DOMAIN s_input : s_input[k].priority_level = "primary")
        => /\ co_pc \in {"collect", "join", "returned"}
                => \E w \in DOMAIN workers : top_segments[w].priority_level = "primary"
           /\ \A w \in DOMAIN workers :
                top_segments[w].priority_level = "secondary"
                    => \E v \in 1..(w - 1) : top_segments[v].priority_level = "primary"

\* C18: the loop guard counts per agent run: whenever a sizing worker's
\* process_segment starts, the query window holds no query issued by an
\* earlier run (of the generation phase or of another segment).
C18_WindowFreshAtRunStart ==
    [][\A w \in DOMAIN workers :
          (workers[w].st = "pending" /\ workers'[w].st = "running")
              => _recent_queries' = <<>>]_vars

(***************************************************************************)
(* Properties of concurrent firecrawl_search calls, checked under SpecRace.*)
(***************************************************************************)
\* The last n elements of a sequence.
LastN(seq, n) == SubSeq(seq, Len(seq) - n + 1, Len(seq))

\* C19: the window of recent queries has capacity 10 with FIFO eviction: when
\* a firecrawl_search call completes, under every interleaving of concurrent
\* callers, the window holds at most 10 queries, and they are the most
\* recently issued ones in issue order.
C19_WindowBoundedFifo ==
    \A t \in DOMAIN threads :
        threads[t].calls > 0
            => LET w == threads[t].window_at_return
                   n == threads[t].issued_at_return
               IN  /\ Len(w) <= 10
                   /\ Len(w) <= n
                   /\ w = LastN(SubSeq(issued, 1, n), Len(w))

(***************************************************************************)
(* The figures of the sizing phase and the order of its results.           *)
(***************************************************************************)
WorkersSum(field) ==
    SumOver(DOMAIN workers, [w \in DOMAIN workers |-> workers[w][field]])

\* C21: when run_complete_pipeline has returned, the totals of the sizing
\* phase (credits, searches, scrapes) are the sums of what every submitted
\* segment's worker spent, a worker that raised after spending included, and
\* the pipeline's total_credits is the phase-1 credits plus that phase-2 total.
C21_TotalsCoverEverySegment ==
    lc_pc = "returned" =>
        /\ phase2.total_credits = WorkersSum("credits")
        /\ phase2.total_searches = WorkersSum("searches")
        /\ phase2.total_scrapes = WorkersSum("scrapes")
        /\ complete_results.total_credits =
               segment_result.credits_used + WorkersSum("credits")

\* C22: when size_market_for_segments has returned, its results stand in the
\* order of the segments as submitted, whatever the order of completion.
C22_ResultsInSubmissionOrder ==
    phase2.returned =>
        \A j, k \in DOMAIN results :
            j < k => results[j].segment_name < results[k].segment_name

\* What holds of results and of the totals in every state of the phase.
C23_StateOfAggregate ==
    /\ \A k \in DOMAIN results :
         \E w \in collected :
             workers[w].st = "returned" /\ results[k] = workers[w].result
    /\ phase2 # NoPhase2 =>
         /\ co_pc = "returned"
         /\ \A w \in DOMAIN workers : workers[w].st \in {"returned", "raised"}
         /\ phase2.n_results = Len(results)
         /\ phase2.total_credits = ResultsSum("credits_used")

\* C23: the aggregate of the sizing phase (the results list and the totals)
\* is written by the coordinating thread only: every entry of results is the
\* dict of a worker that had returned when as_completed yielded it, the
\* totals exist only once every worker has finished and are the sums over
\* the final results, and no step of a worker changes results or totals.
C23_AggregateWrittenAtJoin ==
    /\ []C23_StateOfAggregate
    /\ [][(\E w \in DOMAIN workers : workers'[w] # workers[w]) =>
              (results' = results /\ phase2' = phase2)]_vars

\* A phase that returned after three workers, one of which raised after
\* spending and two of which returned, one of them after spending.
C23_Witness ==
    /\ co_pc = "returned"
    /\ Len(workers) = 3
    /\ Len(results) = 2
    /\ \E w \in DOMAIN workers : workers[w].st = "raised" /\ workers[w].credits > 0
    /\ phase2.total_credits > 0

SelectedWith(prio) ==
    {k \in DOMAIN top_segments : top_segments[k].priority_level = prio}

\* C24: size_market_for_segments selects at most 3 segments, the primary
\* plus at most 2 secondary ones, runs the agent exactly once for each
\* selected segment, and never has more than 3 agent runs in progress.
C24_OneRunPerSelectedSegment ==
    /\ Len(top_segments) <= 3
    /\ Cardinality(SelectedWith("secondary")) <= 2
    /\ SelectedWith("alternative") = {}
    /\ \A w \in DOMAIN workers : workers[w].invoked <= 1
    /\ Cardinality(Running) <= 3
    /\ phase2.returned =>
         /\ Len(workers) = Len(top_segments)
         /\ \A w \in DOMAIN workers : workers[w].invoked = 1

\* C25: in langchain run_complete_pipeline the segments the sizing step
\* works on are those the generation step produced, filtered by priority.
C25_SizingGetsGeneratedSegments ==
    lc_pc = "returned" =>
        /\ s_input = segment_result.structured_segments
        /\ top_segments = TopSegments(segment_result.structured_segments)

\* C27: every envelope firecrawl_search or firecrawl_scrape returns, on every
\* path, carries its credits_used and the elapsed time of the call.
C27_EnvelopeHasCreditsAndTime ==
    (last.tool \in {"search", "scrape"} /\ last.ret.kind = "returned") =>
        /\ LastEnv.credits_used \in Nat
        /\ LastEnv.has_time

\* C29: when no tool call is in progress, _tool_call_counter is the number of
\* tool calls made since the last reset, the calls the pool threads made
\* concurrently included.
C29_CounterCountsEveryCall ==
    (\A t \in RaceThreads : threads[t].pc = "idle") =>
        _tool_call_counter = Len(issued)

\* C26: in the sequential pipeline a sleep stands between every two
\* consecutive external calls, whether the earlier one succeeded or failed,
\* the generation call and the first sizing call included, and no sleep
\* follows the last call.
C26_DelayBetweenCalls ==
    /\ \A k \in 1..(Len(p_events) - 1) :
         p_events[k] = "call" => p_events[k + 1] = "sleep"
    /\ (PipelineEnded /\ p_events # <<>>) => p_events[Len(p_events)] = "call"

\* C28: add_operation appends exactly one record at the end of the ledger and
\* leaves the earlier records as they were, in their order; get_summary (in
\* the summary step, whose figures the written document holds) changes
\* neither the records nor the total.
C28_LedgerAppendOnly ==
    [][/\ tracker' # tracker =>
            /\ Len(tracker'.operations) = Len(tracker.operations) + 1
            /\ SubSeq(tracker'.operations, 1, Len(tracker.operations)) =
                   tracker.operations
       /\ (p_pc = "sizing" /\ ~InLoop) => tracker' = tracker
       /\ p_pc = "persist" =>
            /\ tracker' = tracker
            /\ files'[Len(files')].credit_summary.operations = tracker.operations
            /\ files'[Len(files')].credit_summary.total_credits = tracker.total_credits
      ]_vars

\* A returned run whose ledger holds the generation and two sizing records
\* in the order they were added, as the written summary has them.
C28_Witness ==
    /\ p_pc = "returned"
    /\ Len(files) = 1
    /\ Len(tracker.operations) = 3
    /\ tracker.operations[1].operation = "Segment Generation"
    /\ tracker.operations[3].operation = "Market Sizing"
    /\ files[1].credit_summary.operations = tracker.operations

\* C30: when every agent invocation comes back, by returning or by raising,
\* size_market_for_segments comes to its return, and at that point every
\* submitted worker has finished.
C30_SizingReturns ==
    <>(/\ phase2.returned
       /\ Len(workers) = Len(top_segments)
       /\ \A w \in DOMAIN workers : workers[w].st \in {"returned", "raised"})

\* The phase has returned after three workers, of which one returned, one
\* raised, and one raised after its agent had made tool calls.
C30_Witness ==
    /\ phase2.returned
    /\ Len(workers) = 3
    /\ Cardinality({w \in DOMAIN workers : workers[w].st = "raised"}) = 2
    /\ \E w \in DOMAIN workers :
         workers[w].st = "raised" /\ workers[w].searches + workers[w].scrapes > 0
====
